---- MODULE Spec2Model ----
(***************************************************************************)
(* Model of the Vestbee LP-list scraper: URL discovery by pagination       *)
(* (VestbeeScraper::get_fund_urls), one extraction attempt                 *)
(* (VestbeeScraper::scrape_fund_details), the retry loop                   *)
(* (scrape_with_retry), the row file (CsvExporter) and the per-URL loop of *)
(* main.  The browser is the environment: every page evaluation may fail,  *)
(* and what a page holds is an input.                                      *)
(***************************************************************************)
EXTENDS Integers, Sequences, FiniteSets, TLC

----------------------------------------------------------------------------
(* Bounds of the model and constants of the program *)

\* listing pages the simulated site has at most
MaxPages == 2
\* detail links one listing page (or the fallback query) yields at most
MaxLinks == 2
\* scraper.rs:170  if page_number > 100
PageCap == 100
\* main.rs:53  scrape_with_retry(&scraper, url, 3)
MaxRetries == 3
\* scraper.rs:604  Duration::from_secs(2)
InitialDelay == 2

\* steps of one extraction attempt that fault at most
MaxFaults == 1

\* detail URLs the listing can link to
URLS == {"https://www.vestbee.com/lp/a", "https://www.vestbee.com/lp/b"}

\* what a link resolves to when an attribute read gives the text "undefined"
UndefinedUrl == "https://www.vestbee.com/undefined"
\* the link of a fund whose own path holds the text "undefined"
UndefinedCapitalUrl == "https://www.vestbee.com/lp/undefined-capital"

\* the lists of at most n detail URLs (a list may repeat a URL)
Lists(n) == UNION {[1..k -> URLS] : k \in 0..n}

\* a site of n listing pages: every page links to /lp/a, the last one to /lp/b
LongSite(n) ==
    [i \in 1..n |-> IF i < n THEN << "https://www.vestbee.com/lp/a" >>
                             ELSE << "https://www.vestbee.com/lp/b" >>]

\* a site of one listing page with a broken link before a good one, and sites
\* whose only link holds the text "undefined"
BrokenSites ==
    { << << UndefinedUrl, "https://www.vestbee.com/lp/a" >> >>, << << UndefinedUrl >> >>,
      << << UndefinedCapitalUrl >> >> }

\* the simulated sites: 1..MaxPages listing pages, each with the links of its
\* "Details" elements, two long sites, of exactly PageCap pages and of one page
\* more, and the sites with a broken link
Sites ==
    UNION {[1..k -> Lists(MaxLinks)] : k \in 1..MaxPages}
      \cup {LongSite(PageCap), LongSite(PageCap + 1)}
      \cup BrokenSites

\* what the fallback query can return: the lists of detail URLs, and a broken link
FallbackLists == Lists(MaxLinks) \cup {<< UndefinedUrl >>}

----------------------------------------------------------------------------
(* models.rs *)

Fund(n, u, a, l, g, d, p) ==
    [fund_name |-> n, fund_url |-> u, aum |-> a, linkedin_url |-> l,
     investment_geographies |-> g, fund_description |-> d, fund_portfolio |-> p]

\* Fund::new
FundNew == Fund("", "", "", "", "", "", "")

\* the six page evaluations of scrape_fund_details, in the order of the code
Extractors ==
    << "fund_name", "investment_geographies", "aum", "linkedin_url",
       "fund_description", "fund_portfolio" >>

\* step 0 is browser.new_page(url), steps 1..6 are the extractors
Steps == 0..Len(Extractors)

\* the sets of steps that fault in one attempt
FaultSets == {F \in SUBSET Steps : Cardinality(F) <= MaxFaults}

\* What the six scripts return on a rendered detail page: a page with every
\* field, a page with no name, a page with a name only, a page with nothing.
DetailPages ==
    { [fund_name |-> n, investment_geographies |-> o, aum |-> a,
       linkedin_url |-> l, fund_description |-> d, fund_portfolio |-> p] :
        <<n, o, a, l, d, p>> \in
          { <<"Acme Capital", "Europe, Poland", "1200",
              "https://www.linkedin.com/company/acme", "An early stage fund", "Beta Ventures">>,
            <<"", "Europe, Poland", "1200",
              "https://www.linkedin.com/company/acme", "An early stage fund", "Beta Ventures">>,
            <<"Acme Capital", "", "", "", "", "">>,
            <<"", "", "", "", "", "">> } }

----------------------------------------------------------------------------
VARIABLES
    pc,               \* position of main
    site,             \* listing pages of the site, each a list of detail links
    last_has_next,    \* the last listing page shows a control taken for "next"
    cur,              \* listing page the browser shows
    all_fund_urls, page_number, has_next_page,   \* locals of get_fund_urls
    queried,          \* number of detail-link queries evaluated
    ended,            \* how the pagination loop ended: "done" (no next page) or "cap"
    source,           \* the query whose result get_fund_urls returned: "primary" or "fallback"
    fund_urls,        \* main: the discovered list
    idx,              \* main: index of the for loop (0-based)
    retries, delay,   \* locals of scrape_with_retry
    outcomes,         \* outcome of each scrape_fund_details call of this scrape_with_retry call
    sleeps,           \* backoff sleeps of this scrape_with_retry call, in seconds
    last_call,        \* what the last scrape_fund_details call returned
    ran,              \* steps the last scrape_fund_details call evaluated
    faulted,          \* steps of the last scrape_fund_details call that faulted
    result,           \* what scrape_with_retry returned to main
    started,          \* URLs for which main started extraction, one per iteration
    csv_exists, csv_file,   \* data/vestbee_funds.csv: flushed records
    csv_buf,          \* records the csv writer holds and has not flushed
    all_funds,        \* main: records kept for the batch export
    xlsx,             \* data/vestbee_funds.xlsx: sheets saved
    successful_count, failed_count,
    script_in,        \* what the page holds for the script under evaluation
    script_out        \* what the script returned

vars ==
    << pc, site, last_has_next, cur, all_fund_urls, page_number, has_next_page,
       queried, ended, source, fund_urls, idx, retries, delay, outcomes, sleeps,
       last_call, ran, faulted, result, started, csv_exists, csv_file, csv_buf, all_funds,
       xlsx, successful_count, failed_count, script_in, script_out >>

crawlVars ==
    << site, last_has_next, cur, all_fund_urls, page_number, has_next_page, queried,
       ended, source >>
retryVars == << retries, delay, outcomes, sleeps, last_call, ran, faulted, result >>
sinkVars ==
    << csv_exists, csv_file, csv_buf, all_funds, xlsx, successful_count, failed_count >>

scriptVars == << script_in, script_out >>

NoResult == [kind |-> "none", fund |-> FundNew]

\* no script has been evaluated
NoOutput == [done |-> FALSE]

Init ==
    /\ pc = "start"
    /\ site \in Sites
    /\ last_has_next \in BOOLEAN
    /\ cur = 0
    /\ all_fund_urls = << >>
    /\ page_number = 1
    /\ has_next_page = TRUE
    /\ queried = 0
    /\ ended = "none"
    /\ source = "none"
    /\ fund_urls = << >>
    /\ idx = 0
    /\ retries = 0
    /\ delay = InitialDelay
    /\ outcomes = << >>
    /\ sleeps = << >>
    /\ last_call = NoResult
    /\ ran = {}
    /\ faulted = {}
    /\ result = NoResult
    /\ started = << >>
    /\ csv_exists = FALSE
    /\ csv_file = << >>
    /\ csv_buf = << >>
    /\ all_funds = << >>
    /\ xlsx = << >>
    /\ successful_count = 0
    /\ failed_count = 0
    /\ script_in = << >>
    /\ script_out = NoOutput

----------------------------------------------------------------------------
(* get_fund_urls *)

Contains(s, x) == \E i \in 1..Len(s) : s[i] = x

\* scraper.rs:87  .filter(url => !url.includes('undefined'))
IsResolved(url) ==
    ~\E i \in 1..(Len(url) - 8) : SubSeq(url, i, i + 8) = "undefined"

\* scraper.rs:60-91  the detail-link script on a listing page with these links
DetailLinks(links) == SelectSeq(links, IsResolved)

\* AddUnique without the membership test
AddAll(all, urls) == all \o urls

\* scraper.rs:96-100  for url in fund_urls { if !contains { push } }
RECURSIVE AddUnique(_, _)
AddUnique(all, urls) ==
    IF urls = << >> THEN all
    ELSE AddUnique(IF Contains(all, Head(urls)) THEN all ELSE Append(all, Head(urls)),
                   Tail(urls))

\* scraper.rs:103-162  the next-page script: it clicks the control and reports true,
\* or reports false when it finds none
NextFound == cur < Len(site) \/ last_has_next
NextShown == IF cur < Len(site) THEN cur + 1 ELSE cur

\* OverCap with the comparison off by one
OverCapEarly(n) == n >= PageCap

\* scraper.rs:170  the safety check after page_number += 1
OverCap(n) == n > PageCap

\* main returns the error of a failed step
Abort ==
    pc' = "aborted"

\* scraper.rs:48  browser.new_page(base_url), then the locals of lines 52-54
OpenListing ==
    /\ pc = "start"
    /\ UNCHANGED scriptVars
    /\ \/ /\ pc' = "paging"
          /\ cur' = 1
          /\ all_fund_urls' = << >>
          /\ page_number' = 1
          /\ has_next_page' = TRUE
          /\ UNCHANGED << site, last_has_next, queried, ended, source >>
       \/ /\ Abort
          /\ UNCHANGED crawlVars
    /\ UNCHANGED << fund_urls, idx, started >>
    /\ UNCHANGED retryVars
    /\ UNCHANGED sinkVars

\* scraper.rs:56-177  one iteration of while has_next_page
PaginationStep ==
    /\ pc = "paging"
    /\ UNCHANGED scriptVars
    /\ has_next_page
    /\ \/ \* both evaluations succeed
          /\ queried' = queried + 1
          /\ all_fund_urls' = AddUnique(all_fund_urls, DetailLinks(site[cur]))
          /\ has_next_page' = NextFound
          /\ cur' = IF NextFound THEN NextShown ELSE cur
          /\ IF NextFound
               THEN /\ page_number' = page_number + 1
                    /\ IF OverCap(page_number + 1)
                         THEN pc' = "paged" /\ ended' = "cap"
                         ELSE pc' = "paging" /\ ended' = ended
               ELSE /\ page_number' = page_number
                    /\ pc' = "paged"
                    /\ ended' = "done"
          /\ UNCHANGED << site, last_has_next, source >>
       \/ \* the detail-link evaluation fails (scraper.rs:90-91)
          /\ Abort
          /\ UNCHANGED crawlVars
       \/ \* the next-page evaluation fails (scraper.rs:161-162)
          /\ Abort
          /\ queried' = queried + 1
          /\ all_fund_urls' = AddUnique(all_fund_urls, DetailLinks(site[cur]))
          /\ UNCHANGED << site, last_has_next, cur, page_number, has_next_page, ended, source >>
    /\ UNCHANGED << fund_urls, idx, started >>
    /\ UNCHANGED retryVars
    /\ UNCHANGED sinkVars

\* scraper.rs:181  the fallback query runs iff the primary set is empty
NeedsFallback(urls) == urls = << >>

\* scraper.rs:205-212  what get_fund_urls returns once the fallback query has run
FallbackResult(primary, alternative_urls) ==
    IF alternative_urls # << >> THEN alternative_urls ELSE primary

\* scraper.rs:179-212  after the loop: fallback query and return to main (main.rs:33)
ReturnUrls ==
    /\ pc = "paged"
    /\ UNCHANGED scriptVars
    /\ IF NeedsFallback(all_fund_urls)
         THEN \/ \E alternative_urls \in FallbackLists :
                   /\ fund_urls' = FallbackResult(all_fund_urls, alternative_urls)
                   /\ source' = IF alternative_urls # << >> THEN "fallback" ELSE "primary"
                   /\ pc' = "returned"
              \/ /\ Abort
                 /\ UNCHANGED << fund_urls, source >>
         ELSE /\ fund_urls' = all_fund_urls
              /\ source' = "primary"
              /\ pc' = "returned"
    /\ UNCHANGED << site, last_has_next, cur, all_fund_urls, page_number, has_next_page,
                    queried, ended >>
    /\ UNCHANGED << idx, started >>
    /\ UNCHANGED retryVars
    /\ UNCHANGED sinkVars

----------------------------------------------------------------------------
(* csv_writer.rs *)

\* Header with a column missing
HeaderShort ==
    << "fund_name", "fund_url", "AUM (C3A2 E2809A C2AC)", "linkedin_url",
       "investment_geographies", "fund_description" >>

\* csv_writer.rs:18-26  the header record; the third column is the byte string the
\* source holds between "AUM (" and ")", written here in hexadecimal
Header ==
    << "fund_name", "fund_url", "AUM (C3A2 E2809A C2AC)", "linkedin_url",
       "investment_geographies", "fund_description", "fund_portfolio" >>

\* Row with the first two columns exchanged
RowUrlFirst(fund) ==
    << fund.fund_url, fund.fund_name, fund.aum, fund.linkedin_url,
       fund.investment_geographies, fund.fund_description, fund.fund_portfolio >>

\* csv_writer.rs:32-40  the record write_fund writes for a fund
Row(fund) ==
    << fund.fund_name, fund.fund_url, fund.aum, fund.linkedin_url,
       fund.investment_geographies, fund.fund_description, fund.fund_portfolio >>

\* csv_writer.rs:18, 32  writer.write_record: the record joins the writer's buffer
WriteRecord(buf, record) == Append(buf, record)

\* Flush that leaves the buffer as it is
FlushNot(file, buf) == [file |-> file, buf |-> buf]

\* csv_writer.rs:27, 41, 46  writer.flush: the buffered records reach the file
Flush(file, buf) == [file |-> file \o buf, buf |-> << >>]

----------------------------------------------------------------------------
(* scrape_fund_details *)

\* scraper.rs:217-591  every step ends in `?`: the first faulting step returns its
\* error, and the steps up to it are the ones evaluated
FirstFault(faults) ==
    IF faults = {} THEN Len(Extractors) + 1
    ELSE CHOOSE s \in faults : \A t \in faults : s <= t

StepsRun(faults) == {s \in Steps : s <= FirstFault(faults)}

\* ScrapeFundDetails with each extractor catching its own fault: the field of a
\* faulting extractor stays empty and the record is returned
ScrapeFundDetailsLenient(url, page, faults) ==
    IF 0 \in faults
      THEN [kind |-> "Err", fund |-> FundNew]
      ELSE LET val(k) == IF k \in faults THEN "" ELSE page[Extractors[k]] IN
           [kind |-> "Ok",
            fund |-> Fund(val(1), url, val(3), val(4), val(2), val(5), val(6))]

\* ScrapeFundDetails that leaves fund_url as Fund::new made it
ScrapeFundDetailsNoUrl(url, page, faults) ==
    IF faults # {}
      THEN [kind |-> "Err", fund |-> FundNew]
      ELSE [kind |-> "Ok",
            fund |-> Fund(page.fund_name, "", page.aum, page.linkedin_url,
                          page.investment_geographies, page.fund_description,
                          page.fund_portfolio)]

\* scraper.rs:215-594  the Result<Fund> of one attempt on `url`, when the rendered
\* page makes the scripts return `page` and the steps in `faults` fault
ScrapeFundDetails(url, page, faults) ==
    IF faults # {}
      THEN [kind |-> "Err", fund |-> FundNew]
      ELSE [kind |-> "Ok",
            fund |-> Fund(page.fund_name, url, page.aum, page.linkedin_url,
                          page.investment_geographies, page.fund_description,
                          page.fund_portfolio)]

----------------------------------------------------------------------------
(* scrape_with_retry *)

\* IsOk taking an empty name for a failure
IsOkNamed(r) == r.kind = "Ok" /\ r.fund.fund_name # ""

\* scraper.rs:608  the arm Ok(fund) => return Ok(fund)
IsOk(r) == r.kind = "Ok"

\* CanRetry counting the calls made, not the retries
CanRetryByCalls(r, max_retries) == r + 1 < max_retries

\* scraper.rs:609  the guard of the retry arm
CanRetry(r, max_retries) == r < max_retries

\* NextDelay without the doubling
NextDelayFlat(d) == d

\* scraper.rs:612  delay *= 2
NextDelay(d) == d * 2

\* scraper.rs:606-620  one iteration of the loop: one call of scrape_fund_details, then
\* return the record, or sleep and go round again, or return the error
Attempt ==
    /\ pc = "attempt"
    /\ UNCHANGED scriptVars
    /\ \E page \in DetailPages, faults \in FaultSets :
         LET r == ScrapeFundDetails(fund_urls[idx + 1], page, faults) IN
           /\ last_call' = r
           /\ ran' = StepsRun(faults)
           /\ faulted' = faults
           /\ outcomes' = Append(outcomes, r.kind)
           /\ IF IsOk(r)
                THEN /\ result' = r
                     /\ pc' = "handle"
                     /\ UNCHANGED << retries, delay, sleeps >>
                ELSE IF CanRetry(retries, MaxRetries)
                  THEN /\ sleeps' = Append(sleeps, delay)
                       /\ delay' = NextDelay(delay)
                       /\ retries' = retries + 1
                       /\ pc' = "attempt"
                       /\ UNCHANGED result
                  ELSE /\ result' = r
                       /\ pc' = "handle"
                       /\ UNCHANGED << retries, delay, sleeps >>
    /\ UNCHANGED crawlVars
    /\ UNCHANGED << fund_urls, idx, started >>
    /\ UNCHANGED sinkVars

----------------------------------------------------------------------------
(* main *)

\* main.rs:35-48  the emptiness check, then CsvExporter::new and write_header
OpenSink ==
    /\ pc = "returned"
    /\ UNCHANGED scriptVars
    /\ IF fund_urls = << >>
         THEN /\ pc' = "halted"
              /\ UNCHANGED << csv_exists, csv_file, csv_buf >>
         ELSE \/ \* Writer::from_path fails
                 /\ Abort
                 /\ UNCHANGED << csv_exists, csv_file, csv_buf >>
              \/ \* write_header fails, with the header flushed or not; the writer is
                 \* dropped
                 /\ Abort
                 /\ csv_exists' = TRUE
                 /\ csv_file' \in {<< >>, << Header >>}
                 /\ csv_buf' = << >>
              \/ /\ pc' = "loop"
                 /\ csv_exists' = TRUE
                 /\ csv_file' = Flush(<< >>, WriteRecord(<< >>, Header)).file
                 /\ csv_buf' = Flush(<< >>, WriteRecord(<< >>, Header)).buf
    /\ idx' = 0
    /\ UNCHANGED << all_funds, xlsx, successful_count, failed_count >>
    \* the listing page and the crawl state are locals of get_fund_urls: they end
    \* with the call
    /\ site' = << << >> >>
    /\ last_has_next' = FALSE
    /\ cur' = 0
    /\ all_fund_urls' = << >>
    /\ page_number' = 1
    /\ has_next_page' = TRUE
    /\ queried' = 0
    /\ ended' = "none"
    /\ source' = "none"
    /\ UNCHANGED << fund_urls, started >>
    /\ UNCHANGED retryVars

\* main.rs:50-53  the head of the for loop and the call of scrape_with_retry
\* (scraper.rs:603-604)
LoopHead ==
    /\ pc = "loop"
    /\ UNCHANGED scriptVars
    /\ IF idx < Len(fund_urls)
         THEN /\ started' = Append(started, fund_urls[idx + 1])
              /\ retries' = 0
              /\ delay' = InitialDelay
              /\ outcomes' = << >>
              /\ sleeps' = << >>
              /\ last_call' = NoResult
              /\ ran' = {}
              /\ faulted' = {}
              /\ result' = NoResult
              /\ pc' = "attempt"
         ELSE /\ pc' = "finalize"
              /\ UNCHANGED started
              /\ UNCHANGED retryVars
    /\ UNCHANGED crawlVars
    /\ UNCHANGED << fund_urls, idx >>
    /\ UNCHANGED sinkVars

\* Usable without the test of the name
UsableUnnamed(r) == r.kind = "Ok"

\* main.rs:55  a record is exported only if its name is non-empty
Usable(r) == r.kind = "Ok" /\ r.fund.fund_name # ""

\* CountSuccess that counts a record twice
CountSuccessTwice(successful) == successful + 2

\* main.rs:59  successful_count += 1
CountSuccess(successful) == successful + 1

\* CountFailure that does not count
CountFailureNot(failed) == failed

\* main.rs:61, main.rs:66  failed_count += 1
CountFailure(failed) == failed + 1

\* main.rs:54-73  the match on what scrape_with_retry returned
HandleResult ==
    /\ pc = "handle"
    /\ UNCHANGED scriptVars
    /\ IF Usable(result)
         THEN \/ LET written == WriteRecord(csv_buf, Row(result.fund)) IN
                 /\ csv_file' = Flush(csv_file, written).file
                 /\ csv_buf' = Flush(csv_file, written).buf
                 /\ all_funds' = Append(all_funds, result.fund)
                 /\ successful_count' = CountSuccess(successful_count)
                 /\ idx' = idx + 1
                 /\ pc' = "loop"
                 /\ UNCHANGED failed_count
              \/ \* write_fund fails (main.rs:56), with the row flushed or not; the
                 \* writer is dropped
                 /\ Abort
                 /\ csv_file' \in {csv_file, Append(csv_file, Row(result.fund))}
                 /\ csv_buf' = << >>
                 /\ UNCHANGED << all_funds, successful_count, failed_count, idx >>
         ELSE /\ failed_count' = CountFailure(failed_count)
              /\ idx' = idx + 1
              /\ pc' = "loop"
              /\ UNCHANGED << csv_file, csv_buf, all_funds, successful_count >>
    /\ UNCHANGED << csv_exists, xlsx >>
    /\ UNCHANGED crawlVars
    /\ UNCHANGED << fund_urls, started >>
    /\ UNCHANGED retryVars

\* main.rs:76-89  finalize, the batch export, close
Finish ==
    /\ pc = "finalize"
    /\ UNCHANGED scriptVars
    /\ \/ /\ pc' = "done"
          /\ xlsx' = Append(xlsx, all_funds)
       \/ \* finalize, write_funds or save fails
          /\ Abort
          /\ UNCHANGED xlsx
       \/ \* close fails, after the save
          /\ Abort
          /\ xlsx' = Append(xlsx, all_funds)
    \* csv_writer.rs:45-48  finalize flushes what the writer holds
    /\ csv_file' = Flush(csv_file, csv_buf).file
    /\ csv_buf' = Flush(csv_file, csv_buf).buf
    /\ UNCHANGED << csv_exists, all_funds, successful_count, failed_count >>
    /\ UNCHANGED crawlVars
    /\ UNCHANGED << fund_urls, idx, started >>
    /\ UNCHANGED retryVars

Next ==
    \/ OpenListing
    \/ PaginationStep
    \/ ReturnUrls
    \/ OpenSink
    \/ LoopHead
    \/ Attempt
    \/ HandleResult
    \/ Finish

Spec == Init /\ [][Next]_vars

----------------------------------------------------------------------------
(* The page scripts.  A text is a sequence of characters. *)

\* the state of main while a script is looked at by itself
MainIdle ==
    /\ pc = "script"
    /\ site = << << >> >>
    /\ last_has_next = FALSE
    /\ cur = 0
    /\ all_fund_urls = << >>
    /\ page_number = 1
    /\ has_next_page = TRUE
    /\ queried = 0
    /\ ended = "none"
    /\ source = "none"
    /\ fund_urls = << >>
    /\ idx = 0
    /\ retries = 0
    /\ delay = InitialDelay
    /\ outcomes = << >>
    /\ sleeps = << >>
    /\ last_call = NoResult
    /\ ran = {}
    /\ faulted = {}
    /\ result = NoResult
    /\ started = << >>
    /\ csv_exists = FALSE
    /\ csv_file = << >>
    /\ csv_buf = << >>
    /\ all_funds = << >>
    /\ xlsx = << >>
    /\ successful_count = 0
    /\ failed_count = 0

mainVars ==
    << pc, site, last_has_next, cur, all_fund_urls, page_number, has_next_page,
       queried, ended, source, fund_urls, idx, retries, delay, outcomes, sleeps,
       last_call, ran, faulted, result, started, csv_exists, csv_file, csv_buf, all_funds,
       xlsx, successful_count, failed_count >>

\* a character that has no escape here is written by its code point
NoBreakSpace == "<U+00A0>"

\* the characters of the Unicode category Zs other than U+0020 and U+00A0
SpaceSeparators ==
    { "<U+1680>", "<U+2000>", "<U+2001>", "<U+2002>", "<U+2003>", "<U+2004>",
      "<U+2005>", "<U+2006>", "<U+2007>", "<U+2008>", "<U+2009>", "<U+200A>",
      "<U+202F>", "<U+205F>", "<U+3000>" }

\* white space, as String.prototype.trim, the class \s and parseFloat take it:
\* the WhiteSpace and LineTerminator characters of ECMAScript, which are the tab,
\* the line feed, the vertical tab, the form feed, the carriage return, the space,
\* the no-break space, the byte order mark, the line and paragraph separators and
\* the space separators
IsSpace(c) ==
    c \in {"\t", "\n", "<U+000B>", "\f", "\r", " ", NoBreakSpace, "<U+FEFF>",
           "<U+2028>", "<U+2029>"} \cup SpaceSeparators

RECURSIVE TrimStart(_)
TrimStart(t) == IF t # << >> /\ IsSpace(Head(t)) THEN TrimStart(Tail(t)) ELSE t

RECURSIVE TrimEnd(_)
TrimEnd(t) ==
    IF t # << >> /\ IsSpace(t[Len(t)]) THEN TrimEnd(SubSeq(t, 1, Len(t) - 1)) ELSE t

\* String.prototype.trim
Trim(t) == TrimEnd(TrimStart(t))

(* the name script *)

\* scraper.rs:228  the ranked selectors
NameSelectors == << "h1", ".fund-name", ".company-name", ".title", "[class*=\"name\"]" >>

\* document.querySelector found no element
NoElement == [found |-> FALSE, textContent |-> << >>]
Element(t) == [found |-> TRUE, textContent |-> t]

\* what the first element matched by selector k can hold: no text, white space
\* only, or a name inside white space that tells which selector it came from
ElementsFor(k) ==
    { NoElement, Element(<< >>), Element(<< NoBreakSpace, "\r", "\n" >>),
      Element(<< " ", "F", "u", "n", "d", << "1", "2", "3", "4", "5" >>[k], "\r", "\n" >>) }

\* the detail pages the name script is run on: the first match of every selector
NamePages ==
    { p \in [1..Len(NameSelectors) -> UNION {ElementsFor(k) : k \in 1..Len(NameSelectors)}] :
        \A k \in 1..Len(NameSelectors) : p[k] \in ElementsFor(k) }

\* scraper.rs:231  if (el && el.textContent): the element exists and its text is
\* not the empty string
Truthy(el) == el.found /\ el.textContent # << >>

\* scraper.rs:227-236  the name script, from selector k on
RECURSIVE NameFrom(_, _)
NameFrom(page, k) ==
    IF k > Len(NameSelectors) THEN << >>
    ELSE IF Truthy(page[k]) THEN Trim(page[k].textContent)
    ELSE NameFrom(page, k + 1)

NameScript(page) == NameFrom(page, 1)

InitName ==
    /\ MainIdle
    /\ script_in \in NamePages
    /\ script_out = NoOutput

\* scraper.rs:224-241  page.evaluate of the name script
EvalName ==
    /\ pc = "script"
    /\ ~script_out.done
    /\ script_out' = [done |-> TRUE, value |-> NameScript(script_in)]
    /\ UNCHANGED script_in
    /\ UNCHANGED mainVars

NextName == EvalName

SpecName == InitName /\ [][NextName]_vars

(* the AUM script *)

\* the characters of the text that have no ASCII form: U+20AC, U+00A3, U+00A5
Euro == "<U+20AC>"
Pound == "<U+00A3>"
Yen == "<U+00A5>"

UpperCase ==
    << "A", "B", "C", "D", "E", "F", "G", "H", "I", "J", "K", "L", "M",
       "N", "O", "P", "Q", "R", "S", "T", "U", "V", "W", "X", "Y", "Z" >>
LowerCase ==
    << "a", "b", "c", "d", "e", "f", "g", "h", "i", "j", "k", "l", "m",
       "n", "o", "p", "q", "r", "s", "t", "u", "v", "w", "x", "y", "z" >>
DigitChars == << "0", "1", "2", "3", "4", "5", "6", "7", "8", "9" >>

\* ToLower that keeps the case
ToLowerSame(c) == c

\* String.prototype.toLowerCase, and the i flag of the patterns, on one character
ToLower(c) ==
    IF \E i \in 1..Len(UpperCase) : UpperCase[i] = c
      THEN LowerCase[CHOOSE i \in 1..Len(UpperCase) : UpperCase[i] = c]
      ELSE c

IsDigit(c) == \E i \in 1..Len(DigitChars) : DigitChars[i] = c
DigitVal(c) == (CHOOSE i \in 1..Len(DigitChars) : DigitChars[i] = c) - 1

\* [\d,.\+]
IsNumeric(c) == IsDigit(c) \/ c \in {",", ".", "+"}
\* the class of the four currency signs
IsCurrencySign(c) == c \in {Euro, "$", Pound, Yen}

\* the lower-case word w stands in t at position i, whatever the case
WordAt(t, i, w) ==
    /\ i + Len(w) - 1 <= Len(t)
    /\ \A k \in 1..Len(w) : ToLower(t[i + k - 1]) = w[k]

RECURSIVE SkipSpaces(_, _)
SkipSpaces(t, i) == IF i <= Len(t) /\ IsSpace(t[i]) THEN SkipSpaces(t, i + 1) ELSE i

\* [:\s]*
RECURSIVE SkipColonSpaces(_, _)
SkipColonSpaces(t, i) ==
    IF i <= Len(t) /\ (IsSpace(t[i]) \/ t[i] = ":") THEN SkipColonSpaces(t, i + 1) ELSE i

\* [\d,.\+]+
RECURSIVE SkipNumeric(_, _)
SkipNumeric(t, i) == IF i <= Len(t) /\ IsNumeric(t[i]) THEN SkipNumeric(t, i + 1) ELSE i

RECURSIVE SkipDigits(_, _)
SkipDigits(t, i) == IF i <= Len(t) /\ IsDigit(t[i]) THEN SkipDigits(t, i + 1) ELSE i

CurrencyCodes == { << "e", "u", "r" >>, << "u", "s", "d" >>, << "g", "b", "p" >> }
CodeAt(t, i) == \E w \in CurrencyCodes : WordAt(t, i, w)

\* scraper.rs:339  /AUM.../i: the position after the label, 0 if it is not at i
LabelAum(t, i) == IF WordAt(t, i, << "a", "u", "m" >>) THEN i + 3 ELSE 0

\* scraper.rs:340  /Assets\s*Under\s*Management.../i
LabelLong(t, i) ==
    IF ~WordAt(t, i, << "a", "s", "s", "e", "t", "s" >>) THEN 0
    ELSE LET u == SkipSpaces(t, i + 6) IN
         IF ~WordAt(t, u, << "u", "n", "d", "e", "r" >>) THEN 0
         ELSE LET m == SkipSpaces(t, u + 5) IN
              IF WordAt(t, m, << "m", "a", "n", "a", "g", "e", "m", "e", "n", "t" >>)
                THEN m + 10 ELSE 0

\* scraper.rs:339-340  [TBMK]: a magnitude letter must follow the number
MagnitudeAt(t, i) == i <= Len(t) /\ ToLower(t[i]) \in {"t", "b", "m", "k"}

\* scraper.rs:339-340  the part of both patterns after the label, from position j:
\* [:\s]*([...]?\s*[\d,.\+]+(?:[.,]\d+)?\+?\s*[TBMK](?:rillion|illion)?\s*(?:EUR|USD|GBP)?)
\* with the text of the group
ValueAt(t, j) ==
    LET j2 == SkipColonSpaces(t, j)
        j3 == IF j2 <= Len(t) /\ IsCurrencySign(t[j2]) THEN j2 + 1 ELSE j2
        j4 == SkipSpaces(t, j3)
        j5 == SkipNumeric(t, j4)
        j6 == SkipSpaces(t, j5)
        ok == j5 > j4 /\ MagnitudeAt(t, j6)
        j7 == j6 + 1
        j8 == IF WordAt(t, j7, << "r", "i", "l", "l", "i", "o", "n" >>) THEN j7 + 7
              ELSE IF WordAt(t, j7, << "i", "l", "l", "i", "o", "n" >>) THEN j7 + 6
              ELSE j7
        j9 == SkipSpaces(t, j8)
        j10 == IF CodeAt(t, j9) THEN j9 + 3 ELSE j9
    IN [ok |-> ok, group |-> IF ok THEN SubSeq(t, j2, j10 - 1) ELSE << >>]

\* text.match(pattern): the leftmost match; which is 1 for scraper.rs:339, 2 for 340
Match(t, which) ==
    LET label(i) == IF which = 1 THEN LabelAum(t, i) ELSE LabelLong(t, i)
        hits == {i \in 1..Len(t) : label(i) > 0 /\ ValueAt(t, label(i)).ok}
    IN IF hits = {} THEN [ok |-> FALSE, group |-> << >>]
       ELSE ValueAt(t, label(CHOOSE i \in hits : \A h \in hits : i <= h))

RemoveChars(t, S) == SelectSeq(t, LAMBDA c : c \notin S)

\* scraper.rs:354  replace(/EUR|USD|GBP/gi, '')
RECURSIVE RemoveCodes(_)
RemoveCodes(t) ==
    IF t = << >> THEN << >>
    ELSE IF CodeAt(t, 1) THEN RemoveCodes(SubSeq(t, 4, Len(t)))
    ELSE << Head(t) >> \o RemoveCodes(Tail(t))

\* scraper.rs:360-369  replace(/t(?:rillion)?/gi, '') and its like: every `letter`,
\* with the `rest` of the word when it follows
RECURSIVE RemoveMagnitude(_, _, _)
RemoveMagnitude(t, letter, rest) ==
    IF t = << >> THEN << >>
    ELSE IF ToLower(Head(t)) = letter
      THEN IF WordAt(t, 2, rest)
             THEN RemoveMagnitude(SubSeq(t, 2 + Len(rest), Len(t)), letter, rest)
             ELSE RemoveMagnitude(Tail(t), letter, rest)
    ELSE << Head(t) >> \o RemoveMagnitude(Tail(t), letter, rest)

\* aumValue.toLowerCase().includes(c)
Includes(t, c) == \E i \in 1..Len(t) : ToLower(t[i]) = c

\* scraper.rs:357-370  the power of ten of the multiplier
Exponent(v) ==
    IF Includes(v, "t") THEN 12
    ELSE IF Includes(v, "b") THEN 9
    ELSE IF Includes(v, "m") THEN 6
    ELSE IF Includes(v, "k") THEN 3
    ELSE 0

\* scraper.rs:357-370  aumValue with the magnitude taken out
WithoutMagnitude(v) ==
    IF Includes(v, "t") THEN RemoveMagnitude(v, "t", << "r", "i", "l", "l", "i", "o", "n" >>)
    ELSE IF Includes(v, "b") THEN RemoveMagnitude(v, "b", << "i", "l", "l", "i", "o", "n" >>)
    ELSE IF Includes(v, "m") THEN RemoveMagnitude(v, "m", << "i", "l", "l", "i", "o", "n" >>)
    ELSE IF Includes(v, "k") THEN RemoveMagnitude(v, "k", << >>)
    ELSE v

\* lastIndexOf, 0 when c is not in v
LastIndexOf(v, c) ==
    IF \E i \in 1..Len(v) : v[i] = c
      THEN CHOOSE i \in 1..Len(v) : v[i] = c /\ \A j \in (i + 1)..Len(v) : v[j] # c
      ELSE 0

\* replace(c, d) with a string pattern: the first c only
ReplaceFirst(v, c, d) ==
    IF \E i \in 1..Len(v) : v[i] = c
      THEN LET i == CHOOSE k \in 1..Len(v) : v[k] = c /\ \A j \in 1..(k - 1) : v[j] # c
           IN [v EXCEPT ![i] = d]
      ELSE v

Count(v, c) == Cardinality({i \in 1..Len(v) : v[i] = c})

\* CommaIsDecimal without the test of the number of parts
CommaIsDecimalAnyParts(v) == Len(v) - LastIndexOf(v, ",") <= 3

\* scraper.rs:387-388  parts.length === 2 && parts[1].length <= 3
CommaIsDecimal(v) == Count(v, ",") = 1 /\ Len(v) - LastIndexOf(v, ",") <= 3

\* scraper.rs:374-395  the decimal and the thousands separators
Separators(v) ==
    IF Includes(v, ",") /\ Includes(v, ".")
      THEN IF LastIndexOf(v, ",") > LastIndexOf(v, ".")
             THEN ReplaceFirst(RemoveChars(v, {"."}), ",", ".")
             ELSE RemoveChars(v, {","})
    ELSE IF Includes(v, ",")
      THEN IF CommaIsDecimal(v) THEN ReplaceFirst(v, ",", ".") ELSE RemoveChars(v, {","})
    ELSE v

\* scraper.rs:398  parseFloat: white space, digits, and a period with digits; the
\* text the script passes holds no sign and no exponent
ParseFloat(v) ==
    LET t == TrimStart(v)
        i1 == SkipDigits(t, 1)
        dot == i1 <= Len(t) /\ t[i1] = "."
        i2 == IF dot THEN SkipDigits(t, i1 + 1) ELSE i1
        whole == SubSeq(t, 1, i1 - 1)
        frac == IF dot THEN SubSeq(t, i1 + 1, i2 - 1) ELSE << >>
    IN [nan |-> whole = << >> /\ frac = << >>, whole |-> whole, frac |-> frac]

Zeros(n) == [i \in 1..n |-> "0"]

(* Numbers of the script are IEEE-754 doubles.  A natural number of any size
   is the sequence of its decimal digits, the least significant first, and zero
   is the empty sequence; a double is mant * 2^exp with mant below 2^53.  Where
   an operator calls itself on a computed number, the number is first taken as
   a value, x, of a set of one element. *)

\* a without its leading zeros
BigTrim(a) ==
    LET used == {i \in 1..Len(a) : a[i] # 0}
    IN IF used = {} THEN << >>
       ELSE SubSeq(a, 1, CHOOSE i \in used : \A j \in used : j <= i)

\* from and to a text of digits
BigOfDigits(d) == BigTrim([i \in 1..Len(d) |-> DigitVal(d[Len(d) + 1 - i])])
BigToDigits(a) ==
    IF a = << >> THEN << "0" >>
    ELSE [i \in 1..Len(a) |-> DigitChars[a[Len(a) + 1 - i] + 1]]

RECURSIVE BigOfNat(_)
BigOfNat(n) == IF n = 0 THEN << >> ELSE << n % 10 >> \o BigOfNat(n \div 10)

BigDigit(a, i) == IF i >= 1 /\ i <= Len(a) THEN a[i] ELSE 0

\* a * 2: a digit takes a carry from the digit below when that is 5 or more
BigDouble(a) ==
    BigTrim([i \in 1..(Len(a) + 1) |->
                ((2 * BigDigit(a, i)) % 10) + (IF BigDigit(a, i - 1) >= 5 THEN 1 ELSE 0)])

\* a / 2, rounded down: a digit takes 5 from the digit above when that is odd
BigHalf(a) ==
    BigTrim([i \in 1..Len(a) |-> (a[i] + 10 * (BigDigit(a, i + 1) % 2)) \div 2])

\* a * 2^k
RECURSIVE BigShift(_, _)
BigShift(a, k) ==
    IF k = 0 THEN a
    ELSE CHOOSE r \in {BigShift(x, k - 1) : x \in {BigDouble(a)}} : TRUE

\* a / 2^k, rounded down
RECURSIVE BigHalves(_, _)
BigHalves(a, k) ==
    IF k = 0 \/ a = << >> THEN a
    ELSE CHOOSE r \in {BigHalves(x, k - 1) : x \in {BigHalf(a)}} : TRUE

\* a * 10^e
BigTimesTen(a, e) == IF a = << >> THEN << >> ELSE [i \in 1..e |-> 0] \o a

\* -1, 0 or 1 as a is below, equal to or above b
BigCmp(a, b) ==
    IF Len(a) # Len(b) THEN (IF Len(a) < Len(b) THEN -1 ELSE 1)
    ELSE LET differ == {i \in 1..Len(a) : a[i] # b[i]} IN
         IF differ = {} THEN 0
         ELSE LET i == CHOOSE h \in differ : \A j \in differ : j <= h
              IN IF a[i] < b[i] THEN -1 ELSE 1

\* a + b: place i takes a carry when a lower place makes one and the places
\* between pass it on
BigPlus(a, b) ==
    LET n == IF Len(a) > Len(b) THEN Len(a) ELSE Len(b)
        sum(i) == BigDigit(a, i) + BigDigit(b, i)
        carry(i) == IF \E j \in 1..(i - 1) :
                          sum(j) >= 10 /\ \A m \in (j + 1)..(i - 1) : sum(m) = 9
                      THEN 1 ELSE 0
    IN BigTrim([i \in 1..(n + 1) |-> (sum(i) + carry(i)) % 10])

\* a - b, for a >= b: place i lends when a lower place borrows and the places
\* between pass it on
BigMinus(a, b) ==
    LET borrow(i) == IF \E j \in 1..(i - 1) :
                           /\ a[j] < BigDigit(b, j)
                           /\ \A m \in (j + 1)..(i - 1) : a[m] = BigDigit(b, m)
                       THEN 1 ELSE 0
    IN BigTrim([i \in 1..Len(a) |-> (a[i] - BigDigit(b, i) - borrow(i) + 10) % 10])

\* the distance of a and b
BigDistance(a, b) == IF BigCmp(a, b) < 0 THEN BigMinus(b, a) ELSE BigMinus(a, b)

BigOdd(a) == a # << >> /\ a[1] % 2 = 1

BigOne == << 1 >>
\* 2^52 and 2^53: the bounds of the significand of a normal double
Pow52 == BigShift(BigOne, 52)
Pow53 == BigShift(BigOne, 53)
\* the binary exponent of the smallest double and of the largest significand
MinExp == -1074
MaxExp == 971

ZeroDouble == [mant |-> << >>, exp |-> 0, inf |-> FALSE]
Infinity == [mant |-> << >>, exp |-> 0, inf |-> TRUE]

\* a * 2^i and t * 2^j with a / t in [1, 2), or below 1 when k, which is j - i, has
\* come down to MinExp
RECURSIVE Scaled(_, _, _)
Scaled(a, t, k) ==
    IF BigCmp(a, BigShift(t, 17)) >= 0
      THEN CHOOSE r \in {Scaled(a, x, k + 16) : x \in {BigShift(t, 16)}} : TRUE
    ELSE IF BigCmp(a, BigDouble(t)) >= 0
      THEN CHOOSE r \in {Scaled(a, x, k + 1) : x \in {BigDouble(t)}} : TRUE
    ELSE IF BigCmp(BigShift(a, 16), t) < 0 /\ k - 16 >= MinExp
      THEN CHOOSE r \in {Scaled(x, t, k - 16) : x \in {BigShift(a, 16)}} : TRUE
    ELSE IF BigCmp(a, t) < 0 /\ k > MinExp
      THEN CHOOSE r \in {Scaled(x, t, k - 1) : x \in {BigDouble(a)}} : TRUE
    ELSE [a |-> a, t |-> t, k |-> k]

\* the n bits of the quotient of a by t / 2^(n - 1), and what remains
RECURSIVE Quotient(_, _, _, _)
Quotient(a, t, n, q) ==
    LET bit == IF BigCmp(a, t) >= 0 THEN 1 ELSE 0
        a2 == IF bit = 1 THEN BigMinus(a, t) ELSE a
        q2 == BigPlus(BigDouble(q), BigOfNat(bit))
    IN IF n = 1 THEN [q |-> q2, rem |-> a2, den |-> t]
       ELSE CHOOSE r \in {Quotient(x[1], x[2], n - 1, x[3]) :
                            x \in {<< a2, BigHalf(t), q2 >>}} : TRUE

\* the quotient d of 53 bits, rounded on what remains, ties to the even
\* significand, as the double of binary exponent k
Nearest(d, k) ==
    LET half == BigCmp(BigDouble(d.rem), d.den)
        up == half > 0 \/ (half = 0 /\ BigOdd(d.q))
    IN CHOOSE r \in { IF q = Pow53 /\ k + 1 > MaxExp THEN Infinity
                      ELSE IF q = Pow53 THEN [mant |-> Pow52, exp |-> k + 1, inf |-> FALSE]
                      ELSE IF k > MaxExp THEN Infinity
                      ELSE [mant |-> q, exp |-> k, inf |-> FALSE] :
                          q \in {IF up THEN BigPlus(d.q, BigOne) ELSE d.q} } : TRUE

\* the double of the scaled pair s
FromScaled(s) ==
    CHOOSE r \in {Nearest(d, s.k) : d \in {Quotient(s.a, s.t, 53, << >>)}} : TRUE

\* the double nearest to num / den, ties to the even significand
ToDouble(num, den) ==
    IF num = << >> THEN ZeroDouble
    ELSE CHOOSE r \in {FromScaled(s) : s \in {Scaled(num, BigShift(den, 52), 0)}} : TRUE

\* scraper.rs:398  the Number parseFloat returns for the digits it read
NumberOf(n) == ToDouble(BigOfDigits(n.whole \o n.frac), BigTimesTen(BigOne, Len(n.frac)))

\* scraper.rs:400  numValue * multiplier, the multiplier being 10^e
Times(x, e) ==
    IF x.inf \/ x.mant = << >> THEN x
    ELSE IF x.exp >= 0 THEN ToDouble(BigShift(BigTimesTen(x.mant, e), x.exp), BigOne)
    ELSE ToDouble(BigTimesTen(x.mant, e), BigShift(BigOne, 0 - x.exp))

\* scraper.rs:402  Math.round: the integer nearest to x, a half going up; a
\* double below 2^-2 has its exponent under -54
MathRound(x) ==
    IF x.inf \/ x.mant = << >> \/ x.exp >= 0 THEN x
    ELSE IF x.exp < -54 THEN ZeroDouble
    ELSE LET j == 0 - x.exp
             r == BigHalves(BigPlus(BigDouble(x.mant), BigShift(BigOne, j)), j + 1)
         IN IF r = << >> THEN ZeroDouble ELSE [mant |-> r, exp |-> 0, inf |-> FALSE]

\* the number y rounds to the double of significand mant whose value is value and
\* whose distance to the next double is gap: y is nearer to it than to its
\* neighbours, or half way when the significand is even
RoundsTo(y, value, gap, mant) ==
    CHOOSE r \in { LET \* below a power of two the doubles are twice as dense
                       scaled == IF BigCmp(y, value) < 0 /\ mant = Pow52
                                   THEN BigShift(distance, 2) ELSE BigDouble(distance)
                   IN \/ BigCmp(scaled, gap) < 0
                      \/ (~BigOdd(mant) /\ scaled = gap) :
                       distance \in {BigDistance(y, value)} } : TRUE

\* the first j digits of a, the others zero
BigLeading(a, j) == BigTrim([i \in 1..Len(a) |-> IF i > Len(a) - j THEN a[i] ELSE 0])

\* the numbers of j digits on both sides of value, and whether they round to it
Between(low, value, gap, mant, j) ==
    CHOOSE r \in { [low |-> low, high |-> high,
                    lowOk |-> RoundsTo(low, value, gap, mant),
                    highOk |-> RoundsTo(high, value, gap, mant)] :
                       high \in {BigPlus(low, BigTimesTen(BigOne, Len(value) - j))} } : TRUE

\* Number::toString, steps 5 onward: the number of fewest digits that rounds to the
\* double, and of two such numbers the nearer one
RECURSIVE Shortest(_, _, _, _)
Shortest(value, gap, mant, j) ==
    CHOOSE r \in { IF c.lowOk /\ c.highOk
                     THEN (IF BigCmp(BigDistance(c.high, value), BigDistance(c.low, value)) < 0
                             THEN c.high ELSE c.low)
                   ELSE IF c.lowOk THEN c.low
                   ELSE IF c.highOk THEN c.high
                   ELSE Shortest(value, gap, mant, j + 1) :
                       c \in {Between(BigLeading(value, j), value, gap, mant, j)} } : TRUE

\* a text of digits without its last zeros
Significant(d) ==
    SubSeq(d, 1, CHOOSE i \in 1..Len(d) : d[i] # "0" /\ \A j \in (i + 1)..Len(d) : d[j] = "0")

\* the digits of an integer: up to 21 of them as they are, and from 1e21 on the
\* form d.ddde+n
Notation(digits) ==
    IF Len(digits) <= 21 THEN digits
    ELSE CHOOSE r \in { << Head(s) >> \o (IF Len(s) > 1 THEN << "." >> \o Tail(s) ELSE << >>)
                          \o << "e", "+" >> \o BigToDigits(BigOfNat(Len(digits) - 1)) :
                            s \in {Significant(digits)} } : TRUE

\* scraper.rs:402  Number.prototype.toString of a non-negative integer
NumberToString(x) ==
    IF x.inf THEN << "I", "n", "f", "i", "n", "i", "t", "y" >>
    ELSE IF x.exp <= 0 THEN BigToDigits(BigHalves(x.mant, 0 - x.exp))
    ELSE CHOOSE r \in { Notation(digits) :
             digits \in {BigToDigits(Shortest(BigShift(x.mant, x.exp),
                                              BigShift(BigOne, x.exp), x.mant, 1))} } : TRUE

\* scraper.rs:398-402  Math.round(parseFloat(aumValue) * multiplier).toString()
Rounded(n, e) == NumberToString(MathRound(Times(NumberOf(n), e)))

\* scraper.rs:398-403  parseFloat, the isNaN test and the rounded product
Valued(v3, v4, n, e) ==
    [nan |-> n.nan, numeric |-> v3, separated |-> v4,
     value |-> IF n.nan THEN << >> ELSE Rounded(n, e)]

\* scraper.rs:372-403  the separators of the numeric text v3, then its value
Separated(v3, e) ==
    CHOOSE r \in {Valued(v3, v4, ParseFloat(v4), e) : v4 \in {Separators(v3)}} : TRUE

\* scraper.rs:347-403  from the text of the group to the result
Normalize(group) ==
    LET v0 == Trim(group)
        v1 == RemoveChars(v0, {"+"})
    IN CHOOSE r \in { Separated(WithoutMagnitude(v2), Exponent(v2)) :
           v2 \in {Trim(RemoveCodes(RemoveChars(v1, {Euro, "$", Pound, Yen})))} } : TRUE

NoAum == [matched |-> FALSE, numeric |-> << >>, separated |-> << >>, value |-> << >>]

\* scraper.rs:345-405  one pattern on one text: the match and the value of its group
Captured(m) ==
    CHOOSE r \in { [matched |-> m.ok /\ ~n.nan, numeric |-> n.numeric,
                    separated |-> n.separated, value |-> n.value] :
                       n \in {Normalize(m.group)} } : TRUE

\* scraper.rs:343-408  the loops over the texts and the two patterns
RECURSIVE AumFrom(_, _)
AumFrom(texts, k) ==
    IF k > Len(texts) THEN NoAum
    ELSE CHOOSE r \in { IF f[1].matched THEN f[1]
                        ELSE IF f[2].matched THEN f[2]
                        ELSE AumFrom(texts, k + 1) :
             f \in {<< Captured(Match(texts[k], 1)), Captured(Match(texts[k], 2)) >>} } : TRUE

\* scraper.rs:335-409  the AUM script on the texts of the page's elements
AumScript(texts) == AumFrom(texts, 1)

(* the texts the AUM script is run on *)

\* "AUM: (euro)1.200,50"
TextEuropean ==
    << "A", "U", "M", ":", " ", Euro, "1", ".", "2", "0", "0", ",", "5", "0" >>
\* "AUM: $3.8B"
TextBillions ==
    << "A", "U", "M", ":", " ", "$", "3", ".", "8", "B" >>
\* "AUM: 500k"
TextThousands ==
    << "A", "U", "M", ":", " ", "5", "0", "0", "k" >>
\* "no mention"
TextNoMention ==
    << "n", "o", " ", "m", "e", "n", "t", "i", "o", "n" >>
\* "AUM: 1,5M"
TextOneCommaShort ==
    << "A", "U", "M", ":", " ", "1", ",", "5", "M" >>
\* "AUM: 1,000M"
TextOneCommaThree ==
    << "A", "U", "M", ":", " ", "1", ",", "0", "0", "0", "M" >>
\* "AUM: 1,0000M"
TextOneCommaFour ==
    << "A", "U", "M", ":", " ", "1", ",", "0", "0", "0", "0", "M" >>
\* "AUM: 1,000,000K"
TextTwoCommas ==
    << "A", "U", "M", ":", " ", "1", ",", "0", "0", "0", ",", "0", "0", "0", "K" >>
\* "AUM: 12,34,5K"
TextThreeParts ==
    << "A", "U", "M", ":", " ", "1", "2", ",", "3", "4", ",", "5", "K" >>
\* "AUM: 3,8 B"
TextCommaSpace ==
    << "A", "U", "M", ":", " ", "3", ",", "8", " ", "B" >>
\* "Assets Under Management: (pound)2,5 Million GBP"
TextLongLabel ==
    << "A", "s", "s", "e", "t", "s", " ", "U", "n", "d", "e", "r", " ", "M", "a", "n", "a", "g", "e", "m", "e", "n", "t", ":", " ", Pound, "2", ",", "5", " ", "M", "i", "l", "l", "i", "o", "n", " ", "G", "B", "P" >>
\* "AUM: 100+ M EUR"
TextPlus ==
    << "A", "U", "M", ":", " ", "1", "0", "0", "+", " ", "M", " ", "E", "U", "R" >>
\* "aum 1.000.000,50 k"
TextEuropeanK ==
    << "a", "u", "m", " ", "1", ".", "0", "0", "0", ".", "0", "0", "0", ",", "5", "0", " ", "k" >>
\* "AUM: 1,000,000.50K"
TextUsK ==
    << "A", "U", "M", ":", " ", "1", ",", "0", "0", "0", ",", "0", "0", "0", ".", "5", "0", "K" >>
\* "AUM n/a. AUM: $ 7 Trillion USD"
TextSecondAum ==
    << "A", "U", "M", " ", "n", "/", "a", ".", " ", "A", "U", "M", ":", " ", "$", " ", "7", " ", "T", "r", "i", "l", "l", "i", "o", "n", " ", "U", "S", "D" >>
\* "AUM: .M"
TextNoDigits ==
    << "A", "U", "M", ":", " ", ".", "M" >>
\* "AUM: 1.000K"
TextPeriodGroup ==
    << "A", "U", "M", ":", " ", "1", ".", "0", "0", "0", "K" >>
\* "AUM: 1200"
TextNoSuffix ==
    << "A", "U", "M", ":", " ", "1", "2", "0", "0" >>

\* "AUM: 1.2346K"
TextRounded ==
    << "A", "U", "M", ":", " ", "1", ".", "2", "3", "4", "6", "K" >>
\* "AUM:\r\n5M"
TextLineBreak ==
    << "A", "U", "M", ":", "\r", "\n", "5", "M" >>
\* "AUM:(no-break space)2 K"
TextNoBreakSpace ==
    << "A", "U", "M", ":", NoBreakSpace, "2", NoBreakSpace, "K" >>
\* "AUM: 0.5005K": 0.5005 * 1000 is the double 500.49999999999994
TextBelowHalf ==
    << "A", "U", "M", ":", " ", "0", ".", "5", "0", "0", "5", "K" >>
\* "AUM: 16.2738955M": the product is the double 16273895.499999998
TextInexact ==
    << "A", "U", "M", ":", " ", "1", "6", ".", "2", "7", "3", "8", "9", "5", "5", "M" >>
\* "AUM: 1000000000T": 1e21
TextExponent ==
    << "A", "U", "M", ":", " ", "1", "0", "0", "0", "0", "0", "0", "0", "0", "0", "T" >>
\* "AUM: 9007199254740993K": 2^53 + 1 is no double
TextBeyondExact ==
    << "A", "U", "M", ":", " ", "9", "0", "0", "7", "1", "9", "9", "2", "5", "4", "7", "4",
       "0", "9", "9", "3", "K" >>
LiteralTexts ==
    { TextRounded, TextLineBreak, TextNoBreakSpace, TextBelowHalf, TextInexact,
      TextExponent, TextBeyondExact,
      TextEuropean, TextBillions, TextThousands, TextNoMention,
      TextOneCommaShort, TextOneCommaThree, TextOneCommaFour, TextTwoCommas,
      TextThreeParts, TextCommaSpace, TextLongLabel, TextPlus,
      TextEuropeanK, TextUsK, TextSecondAum, TextNoDigits,
      TextPeriodGroup, TextNoSuffix }

\* the decimal digits of a natural number (Number.prototype.toString)
RECURSIVE Digits(_)
Digits(n) ==
    IF n < 10 THEN << DigitChars[n + 1] >>
    ELSE Digits(n \div 10) \o << DigitChars[(n % 10) + 1] >>

\* digits in groups of three marked by sep
RECURSIVE Grouped(_, _)
Grouped(d, sep) ==
    IF Len(d) <= 3 THEN d
    ELSE Grouped(SubSeq(d, 1, Len(d) - 3), sep) \o << sep >> \o SubSeq(d, Len(d) - 2, Len(d))

AumValues == {0, 7, 42, 999, 1000, 1500, 12345, 999999, 1000000, 1234567}
Suffixes == {"", "K", "M", "B", "T"}
Styles == {"plain", "us", "european"}

SuffixExponent(x) ==
    IF x = "T" THEN 12 ELSE IF x = "B" THEN 9 ELSE IF x = "M" THEN 6
    ELSE IF x = "K" THEN 3 ELSE 0

\* the value in the style, with the suffix, after the label "AUM: "
Rendering(value, suffix, style) ==
    << "A", "U", "M", ":", " " >>
      \o (IF style = "us" THEN Grouped(Digits(value), ",")
          ELSE IF style = "european" THEN Grouped(Digits(value), ".")
          ELSE Digits(value))
      \o (IF suffix = "" THEN << >> ELSE << suffix >>)

\* a page with one text, written or rendered, and pages of two texts
AumInputs ==
    { [texts |-> << t >>, value |-> 0, suffix |-> "", style |-> "literal"] :
          t \in LiteralTexts }
      \cup { [texts |-> << Rendering(v, x, y) >>, value |-> v, suffix |-> x, style |-> y] :
                v \in AumValues, x \in Suffixes, y \in Styles }
      \cup { [texts |-> << t, TextBillions >>, value |-> 0, suffix |-> "", style |-> "literal"] :
                t \in {TextNoMention, TextNoDigits, TextThousands} }

InitAum ==
    /\ MainIdle
    /\ script_in \in AumInputs
    /\ script_out = NoOutput

\* scraper.rs:332-414  page.evaluate of the AUM script and into_value::<String>
EvalAum ==
    /\ pc = "script"
    /\ ~script_out.done
    /\ script_out' = [done |-> TRUE, aum |-> AumScript(script_in.texts)]
    /\ UNCHANGED script_in
    /\ UNCHANGED mainVars

NextAum == EvalAum

SpecAum == InitAum /\ [][NextAum]_vars

----------------------------------------------------------------------------
(* Properties *)

NoDup(s) == \A i, j \in 1..Len(s) : s[i] = s[j] => i = j
Range(s) == {s[i] : i \in 1..Len(s)}
Last(s) == s[Len(s)]

RECURSIVE Flatten(_)
Flatten(pages) == IF pages = << >> THEN << >> ELSE Head(pages) \o Flatten(Tail(pages))

FirstPos(s, x) == CHOOSE i \in 1..Len(s) : s[i] = x /\ \A j \in 1..(i - 1) : s[j] # x

\* r holds every element of s once, in the order in which s first shows them
IsFirstSeenOrder(r, s) ==
    /\ NoDup(r)
    /\ Range(r) = Range(s)
    /\ \A i, j \in 1..Len(r) : i < j => FirstPos(s, r[i]) < FirstPos(s, r[j])

\* scrape_with_retry has returned to main
Returned == result.kind # "none"

\* C1 (as stated): with a retry budget of 3 and an operation that fails on every
\* call, scrape_with_retry calls the operation exactly 3 times and returns the
\* failure.
C1_Original ==
    (Returned /\ result.kind = "Err") => Len(outcomes) = 3

\* C1 (amended): with a retry budget of 3 and an operation that fails on every
\* call, scrape_with_retry calls the operation exactly 4 times, the first call and
\* 3 retries after sleeps of 2, 4 and 8 seconds, and then returns the failure.
C1_Amended ==
    (Returned /\ result.kind = "Err") =>
        /\ Len(outcomes) = MaxRetries + 1
        /\ \A i \in 1..Len(outcomes) : outcomes[i] = "Err"
        /\ retries = MaxRetries
        /\ sleeps = << 2, 4, 8 >>
        /\ result = last_call

C1_Witness ==
    Returned /\ result.kind = "Err" /\ Len(outcomes) = 4

\* C2: when the operation fails on its first two calls and succeeds on the third,
\* scrape_with_retry retries exactly twice, sleeps 2 s and then 4 s, and returns
\* the record of the third call; no call and no sleep follows a success.
C2_FailTwiceThenSucceed ==
    /\ \A i \in 1..(Len(outcomes) - 1) : outcomes[i] = "Err"
    /\ (outcomes # << >> /\ Last(outcomes) = "Ok") =>
          /\ Returned
          /\ Len(sleeps) = Len(outcomes) - 1
    /\ outcomes = << "Err", "Err", "Ok" >> =>
          /\ retries = 2
          /\ sleeps = << 2, 4 >>
          /\ result.kind = "Ok"
          /\ result = last_call
          /\ result.fund.fund_url = Last(started)

C2_Witness ==
    pc = "handle" /\ outcomes = << "Err", "Err", "Ok" >> /\ result.kind = "Ok"

\* the links the detail-link script finds on each page
Found(pages) == [i \in 1..Len(pages) |-> DetailLinks(pages[i])]

\* the site serves its pages with no page empty, and its last page has no next control
C3_Case ==
    /\ pc = "returned"
    /\ ~last_has_next
    /\ \A i \in 1..Len(site) : DetailLinks(site[i]) # << >>

\* C3 (as stated): for N listing pages, each with links, and no next page after
\* the last one, get_fund_urls returns the union of the pages' links, each once,
\* in first-seen order, and the loop ends on the next-page query, not on the cap.
C3_Original ==
    C3_Case =>
        /\ IsFirstSeenOrder(fund_urls, Flatten(Found(site)))
        /\ ended = "done"

\* C3 (amended): the same for N <= 100 listing pages.
C3_Amended ==
    (C3_Case /\ Len(site) <= PageCap) =>
        /\ IsFirstSeenOrder(fund_urls, Flatten(Found(site)))
        /\ ended = "done"
        /\ source = "primary"
        /\ queried = Len(site)

C3_Witness ==
    /\ C3_Case
    /\ Len(site) = 2
    /\ Range(site[1]) \cap Range(site[2]) # {}
    /\ Len(fund_urls) = 2

\* C4: when the next-page query reports true on every call, the detail-link query
\* runs on pages 1..100 and on no later page, and the loop exits with the page
\* counter at 101; the loop never runs the query more than 100 times.
C4_PageCap ==
    /\ queried <= PageCap
    /\ page_number <= PageCap + 1
    /\ (pc = "paged" /\ has_next_page) =>
          /\ page_number = PageCap + 1
          /\ queried = PageCap
          /\ ended = "cap"
    /\ (pc = "paging") => queried = page_number - 1

C4_Witness ==
    pc = "paged" /\ has_next_page /\ ended = "cap" /\ queried = 100
\* a single extractor, and nothing else, faulted in the last attempt
SingleExtractorFault ==
    Cardinality(faulted) = 1 /\ 0 \notin faulted

\* C5 (as stated): a fault in a single field extractor leaves that field empty, the
\* remaining extractors still run and the attempt returns the record.
C5_Original ==
    SingleExtractorFault =>
        /\ last_call.kind = "Ok"
        /\ ran = Steps

\* C5 (amended): a fault in a field extractor makes the attempt fail: the
\* extractors after it do not run and no record is returned; an attempt returns a
\* record only when no step faulted, and then every extractor has run and each
\* field holds what its script returned.
C5_Amended ==
    /\ faulted # {} =>
          /\ last_call.kind = "Err"
          /\ \A s \in Steps : s \in ran <=> \A f \in faulted : s <= f
    /\ last_call.kind = "Ok" =>
          /\ faulted = {}
          /\ ran = Steps
          /\ last_call.fund.fund_url = Last(started)
          /\ \E page \in DetailPages :
                \A k \in 1..Len(Extractors) :
                    last_call.fund[Extractors[k]] = page[Extractors[k]]

C5_Witness ==
    /\ faulted = {3}
    /\ last_call.kind = "Err"
    /\ ran = {0, 1, 2, 3}

\* get_fund_urls has returned a list to main
Discovered ==
    pc \in {"returned", "halted", "loop", "attempt", "handle", "finalize", "done"}

\* C6: the list get_fund_urls returns holds no detail URL twice, whichever query
\* produced it, so main starts extraction at most once for a URL.
C6_NoDuplicateUrl ==
    /\ Discovered => NoDup(fund_urls)
    /\ NoDup(started)

\* an extraction attempt returned a record whose name is empty
EmptyNameRecord(r) == r.kind = "Ok" /\ r.fund.fund_name = ""

\* C7: a record returned without error and with an empty name is returned by
\* scrape_with_retry at once, with no retry and no sleep after it, and main counts
\* the URL as failed and writes the record to neither the row file nor the batch
\* list.
C7_EmptyName ==
    /\ [](EmptyNameRecord(last_call) =>
            /\ result = last_call
            /\ Last(outcomes) = "Ok"
            /\ Len(sleeps) = Len(outcomes) - 1
            /\ retries = Len(outcomes) - 1)
    /\ [][(pc = "handle" /\ EmptyNameRecord(result)) =>
            /\ pc' = "loop"
            /\ failed_count' = failed_count + 1
            /\ successful_count' = successful_count
            /\ csv_file' = csv_file
            /\ all_funds' = all_funds
            /\ xlsx' = xlsx]_vars

C7_Witness ==
    /\ pc = "loop"
    /\ EmptyNameRecord(result)
    /\ outcomes = << "Ok" >>
    /\ sleeps = << >>
    /\ failed_count = 1
    /\ csv_file = << Header >>
    /\ all_funds = << >>

\* C8: when extraction of a URL fails with the retry budget exhausted, main adds
\* one to the failure counter, exports nothing for that URL and goes on with the
\* loop: the next URL is started if there is one, and the run is not ended there.
C8_HardFailure ==
    /\ [][(pc = "handle" /\ result.kind = "Err") =>
            /\ pc' = "loop"
            /\ idx' = idx + 1
            /\ failed_count' = failed_count + 1
            /\ successful_count' = successful_count
            /\ csv_file' = csv_file
            /\ all_funds' = all_funds
            /\ xlsx' = xlsx]_vars
    /\ [][(pc = "loop" /\ idx < Len(fund_urls)) =>
            /\ pc' = "attempt"
            /\ started' = Append(started, fund_urls[idx + 1])]_vars
    /\ [](pc \in {"finalize", "done"} => started = fund_urls)

\* the first of two URLs has failed on all four calls and has been counted; the
\* loop is about to go on with the second
C8_Witness ==
    /\ pc = "loop"
    /\ result.kind = "Err"
    /\ outcomes = << "Err", "Err", "Err", "Err" >>
    /\ retries = MaxRetries
    /\ idx = 1
    /\ Len(fund_urls) = 2
    /\ started = << fund_urls[1] >>
    /\ failed_count = 1
    /\ successful_count = 0
    /\ csv_file = << Header >>
    /\ all_funds = << >>

\* C9 (as stated): at the end of every run that terminates normally the row file
\* exists and its first line is the 7-column header.
C9_Original ==
    pc \in {"done", "halted"} =>
        /\ csv_exists
        /\ csv_file # << >>
        /\ Len(csv_file[1]) = 7

\* C9 (amended): at the end of every run that terminates normally after a
\* non-empty discovery, the row file exists and its first line is the 7-column
\* header, followed by one row for each exported record; with zero exported
\* records the file holds the header alone.  A run that ends on an empty discovery
\* creates no row file.
C9_Amended ==
    /\ pc = "done" =>
          /\ csv_exists
          /\ Len(csv_file) = 1 + successful_count
          /\ csv_file[1] =
               << "fund_name", "fund_url", "AUM (C3A2 E2809A C2AC)", "linkedin_url",
                  "investment_geographies", "fund_description", "fund_portfolio" >>
          /\ \A i \in 1..Len(csv_file) : Len(csv_file[i]) = 7
    /\ pc = "halted" => (fund_urls = << >> /\ ~csv_exists)

C9_Witness ==
    pc = "done" /\ successful_count = 0 /\ failed_count = 2 /\ Len(csv_file) = 1

\* C10 (as stated): once discovery has returned a non-empty list, no failure while
\* handling a URL, in extraction or in writing its record, ends the run before all
\* URLs are processed; only an empty discovery ends the run with no URL processed.
C10_Original ==
    /\ [][(pc \in {"attempt", "handle"}) => (pc' \in {"attempt", "handle", "loop"})]_vars
    /\ []((pc \in {"halted", "done"} /\ started = << >>) => fund_urls = << >>)

\* C10 (amended): once discovery has returned a non-empty list, no extraction
\* failure ends the run before all URLs are processed: a retry-exhausted failure
\* and an empty-name record each add one to the failure counter and the loop goes
\* on.  A failure while writing a record's row does end the run, with main
\* returning the error.  A run that returns normally processes no URL only on an
\* empty discovery.
C10_Amended ==
    /\ [][(pc = "attempt") => (pc' \in {"attempt", "handle"})]_vars
    /\ [][(pc = "handle" /\ ~(result.kind = "Ok" /\ result.fund.fund_name # "")) =>
            /\ pc' = "loop"
            /\ failed_count' = failed_count + 1]_vars
    /\ [][(pc = "handle" /\ pc' # "loop") =>
            /\ pc' = "aborted"
            /\ result.kind = "Ok"
            /\ result.fund.fund_name # ""
            /\ failed_count' = failed_count]_vars
    /\ []((pc \in {"halted", "done"} /\ started = << >>) =>
            (pc = "halted" /\ fund_urls = << >>))
    /\ [](pc \in {"finalize", "done"} => started = fund_urls)

C10_Witness ==
    /\ pc = "aborted"
    /\ result.kind = "Ok"
    /\ Len(started) = 1
    /\ Len(fund_urls) = 2
    /\ failed_count = 0
\* selector k matches an element whose trimmed text is not empty
HasName(page, k) == page[k].found /\ Trim(page[k].textContent) # << >>

\* C18: the name extractor returns the trimmed text of the first selector, in
\* rank order, whose element has non-empty trimmed text; an element of white space
\* only at a higher rank does not stop the lower ranks from being tried, and the
\* result is empty only if no selector yields non-empty trimmed text.
C18_FirstNonEmptyName ==
    script_out.done =>
        IF \E k \in 1..Len(NameSelectors) : HasName(script_in, k)
          THEN LET k == CHOOSE i \in 1..Len(NameSelectors) :
                          /\ HasName(script_in, i)
                          /\ \A j \in 1..(i - 1) : ~HasName(script_in, j)
               IN script_out.value = Trim(script_in[k].textContent)
          ELSE script_out.value = << >>

(* AUM normalization *)

\* the script has run on a page whose one text is t
Normalized(t) == script_out.done /\ script_in.texts = << t >>

\* C11: the text "AUM: (euro)1.200,50", with no magnitude suffix and European
\* separators, normalizes to "1200": the multiplier defaults to 1, the period is
\* stripped as a thousands mark and the comma is the decimal separator.
C11_EuropeanNoSuffix ==
    Normalized(TextEuropean) => script_out.aum.value = << "1", "2", "0", "0" >>

\* C12: "AUM: $3.8B" normalizes to "3800000000", "AUM: 500k" to "500000", and a
\* text with no AUM expression ("no mention") to the empty string.
C12_Examples ==
    /\ Normalized(TextBillions) =>
          script_out.aum.value = << "3", "8", "0", "0", "0", "0", "0", "0", "0", "0" >>
    /\ Normalized(TextThousands) =>
          script_out.aum.value = << "5", "0", "0", "0", "0", "0" >>
    /\ Normalized(TextNoMention) => script_out.aum.value = << >>

C12_Witness ==
    /\ Normalized(TextBillions)
    /\ script_out.aum.matched
    /\ script_out.aum.numeric = << "3", ".", "8" >>
    /\ Len(script_out.aum.value) = 10

\* the decimal string of value times the multiplier of the suffix
Product(value, suffix) ==
    IF value = 0 THEN << "0" >> ELSE Digits(value) \o Zeros(SuffixExponent(suffix))

\* C13: round trip: for every value, magnitude suffix (none, K, M, B, T) and
\* separator style (plain, US comma-grouped, European period-grouped), the value
\* rendered in the style with the suffix after the label "AUM:" normalizes to the
\* decimal string of the value times the multiplier of the suffix.
C13_RoundTrip ==
    (script_out.done /\ script_in.style # "literal") =>
        script_out.aum.value = Product(script_in.value, script_in.suffix)

\* the numeric part the separator step is given holds commas and no period
CommasOnly ==
    /\ script_out.done
    /\ script_out.aum.matched
    /\ Includes(script_out.aum.numeric, ",")
    /\ ~Includes(script_out.aum.numeric, ".")

AfterLastComma(v) == SubSeq(v, LastIndexOf(v, ",") + 1, Len(v))
WithLastCommaAsPeriod(v) == [v EXCEPT ![LastIndexOf(v, ",")] = "."]
WithoutCommas(v) == SelectSeq(v, LAMBDA c : c # ",")

\* C17 as stated: with commas and no period in the numeric part, the comma is
\* the decimal separator and becomes a period if the text after the last comma
\* has length at most 3, and otherwise every comma is stripped, for any number of
\* commas.
C17_Original ==
    CommasOnly =>
        LET v == script_out.aum.numeric IN
        script_out.aum.separated =
            IF Len(AfterLastComma(v)) <= 3 THEN WithLastCommaAsPeriod(v)
            ELSE WithoutCommas(v)

\* C17 amended: with commas and no period in the numeric part, the comma becomes
\* a period if it is the only comma and the text after it has length at most 3;
\* in every other case, two or more commas included, every comma is stripped.
C17_Amended ==
    CommasOnly =>
        LET v == script_out.aum.numeric IN
        script_out.aum.separated =
            IF Cardinality({i \in 1..Len(v) : v[i] = ","}) = 1
                 /\ Len(AfterLastComma(v)) <= 3
              THEN WithLastCommaAsPeriod(v)
              ELSE WithoutCommas(v)

C17_Witness ==
    /\ CommasOnly
    /\ script_in.texts = << TextTwoCommas >>
    /\ script_out.aum.numeric = << "1", ",", "0", "0", "0", ",", "0", "0", "0" >>
    /\ script_out.aum.separated = << "1", "0", "0", "0", "0", "0", "0" >>
    /\ script_out.aum.value = << "1", "0", "0", "0", "0", "0", "0", "0", "0", "0" >>

(* the records and the two writers *)

\* main is in the per-URL loop or past it, and no step has failed
LoopPoints == {"loop", "attempt", "handle", "finalize", "done"}

FieldNames ==
    {"fund_name", "fund_url", "aum", "linkedin_url", "investment_geographies",
     "fund_description", "fund_portfolio"}

\* the seven columns of a record, in the order of the struct's use in write_fund
Columns(f) ==
    << f.fund_name, f.fund_url, f.aum, f.linkedin_url, f.investment_geographies,
       f.fund_description, f.fund_portfolio >>

\* C14: every record written to the row file or added to the batch list has a
\* non-empty detail URL, equal to the URL passed to the extraction that made it,
\* and its six other fields are strings, possibly empty; a fresh record has all
\* seven fields empty.
C14_RecordInvariant ==
    /\ [](/\ DOMAIN FundNew = FieldNames
          /\ \A k \in FieldNames : FundNew[k] = ""
          /\ \A i \in 1..Len(all_funds) :
                /\ all_funds[i].fund_url # ""
                /\ DOMAIN all_funds[i] = FieldNames
                /\ \A k \in FieldNames : all_funds[i][k] \in STRING
          /\ \A i \in 2..Len(csv_file) :
                /\ Len(csv_file[i]) = 7
                /\ csv_file[i][2] # ""
                /\ \A k \in 1..7 : csv_file[i][k] \in STRING)
    /\ [][/\ (pc = "attempt" /\ last_call'.kind = "Ok") =>
                last_call'.fund.fund_url = fund_urls[idx + 1]
          /\ (pc = "handle" /\ Len(all_funds') > Len(all_funds)) =>
                /\ Last(all_funds').fund_url = fund_urls[idx + 1]
                /\ Last(all_funds').fund_url = Last(started)
          /\ (pc = "handle" /\ Len(csv_file') > Len(csv_file)) =>
                Last(csv_file')[2] = fund_urls[idx + 1]]_vars

C14_Witness ==
    /\ pc = "loop"
    /\ Len(all_funds) = 2
    /\ Len(csv_file) = 3
    /\ all_funds[1].fund_url # all_funds[2].fund_url
    /\ all_funds[2].fund_url = fund_urls[2]
    /\ all_funds[2].aum = ""

\* the records kept come from URLs of the list handled so far, in their order
InListOrder ==
    \E f \in [1..Len(all_funds) -> 1..idx] :
        /\ \A i, j \in 1..Len(all_funds) : i < j => f[i] < f[j]
        /\ \A i \in 1..Len(all_funds) : all_funds[i].fund_url = fund_urls[f[i]]

\* C15: at every point of the per-URL loop the data rows of the row file are the
\* records kept for the batch export, in the same order, and these are exactly
\* the records with a non-empty name, in the order of their URLs in the
\* discovered list; the batch export is written once, after the last URL.
C15_SameStream ==
    /\ []((pc \in LoopPoints) =>
            /\ Tail(csv_file) = [i \in 1..Len(all_funds) |-> Columns(all_funds[i])]
            /\ \A i \in 1..Len(all_funds) : all_funds[i].fund_name # ""
            /\ InListOrder
            /\ (pc # "done") => xlsx = << >>
            /\ (pc = "done") => xlsx = << all_funds >>)
    /\ [](/\ Len(xlsx) <= 1
          /\ (xlsx # << >>) => (idx = Len(fund_urls) /\ xlsx[1] = all_funds))
    /\ [][(pc = "handle" /\ pc' = "loop") =>
            all_funds' = IF result.kind = "Ok" /\ result.fund.fund_name # ""
                           THEN Append(all_funds, result.fund)
                           ELSE all_funds]_vars

C15_Witness ==
    /\ pc = "done"
    /\ Len(fund_urls) = 2
    /\ Len(all_funds) = 1
    /\ all_funds[1].fund_url = fund_urls[2]
    /\ xlsx = << all_funds >>
    /\ Tail(csv_file) = << Columns(all_funds[1]) >>

\* the header is written and flushed before any URL is processed: no file and no
\* started URL before the writer is made, and the header alone in the file when
\* the loop is entered
HeaderFirst ==
    /\ []((pc \in {"start", "paging", "paged", "returned"}) =>
            (~csv_exists /\ csv_file = << >> /\ csv_buf = << >> /\ started = << >>))
    /\ [][(pc = "returned" /\ pc' = "loop") =>
             (csv_file' = << Header >> /\ csv_buf' = << >> /\ started = << >>)]_vars

\* the row of each successful record is written and flushed before the extraction
\* of the next URL begins
RowBeforeNext ==
    [][/\ (pc = "loop" /\ pc' = "attempt") =>
             (csv_buf = << >> /\ Len(csv_file) = 1 + successful_count)
       /\ (pc = "handle" /\ pc' = "loop") =>
             /\ csv_buf' = << >>
             /\ csv_file' = IF result.kind = "Ok" /\ result.fund.fund_name # ""
                              THEN Append(csv_file, Columns(result.fund))
                              ELSE csv_file]_vars

\* the flushed file holds the header, then one row for each successful record so
\* far, and nothing else
HeaderAndRows ==
    /\ csv_buf = << >>
    /\ Len(csv_file) = 1 + Len(all_funds)
    /\ Len(all_funds) = successful_count
    /\ csv_file[1] = Header
    /\ \A i \in 2..Len(csv_file) :
          csv_file[i] = Columns(all_funds[i - 1]) /\ csv_file[i] # Header

\* C16 (as stated): the header is written and flushed once before any URL is
\* processed, and the row of each successful record is written and flushed before
\* the extraction of the next URL begins, so that at any point where the run may
\* stop, once the row file is there, the flushed file holds the header followed by
\* one row for each successful record so far and nothing else.
C16_Original ==
    /\ HeaderFirst
    /\ RowBeforeNext
    /\ [](csv_exists => HeaderAndRows)

\* C16 (amended): the header is written and flushed once before any URL is
\* processed, and the row of each successful record is written and flushed before
\* the extraction of the next URL begins, so that at any point where the run may
\* stop with no write to the row file having failed, the flushed file holds the
\* header followed by one row for each successful record so far and nothing
\* else.  A run that ends on an empty discovery, or fails before the writer is
\* made, leaves no row file.  A run that ends on a failed write of the header
\* leaves a file that is empty or holds the header alone; a run that ends on a
\* failed write of a record's row leaves the header and the rows of the successful
\* records so far, followed or not by the row of the record whose write failed,
\* which is not counted as successful.
C16_Amended ==
    /\ HeaderFirst
    /\ RowBeforeNext
    /\ []((pc \in LoopPoints) => (csv_exists /\ HeaderAndRows))
    /\ []((pc = "halted") => (~csv_exists /\ csv_file = << >> /\ fund_urls = << >>))
    /\ []((pc = "aborted" /\ ~csv_exists) => (csv_file = << >> /\ started = << >>))
    /\ []((pc = "aborted" /\ csv_exists) =>
            \/ started = << >> /\ all_funds = << >> /\ csv_buf = << >> /\ csv_file = << >>
            \/ HeaderAndRows
            \/ /\ Usable(result)
               /\ csv_buf = << >>
               /\ Len(all_funds) = successful_count
               /\ csv_file = << Header >> \o [i \in 1..Len(all_funds) |-> Columns(all_funds[i])]
                                \o << Columns(result.fund) >>
               /\ Len(started) = Len(all_funds) + failed_count + 1)
    /\ [][(pc = "handle" /\ pc' = "aborted") =>
             /\ Usable(result)
             /\ csv_file' \in {csv_file, Append(csv_file, Columns(result.fund))}
             /\ all_funds' = all_funds
             /\ successful_count' = successful_count]_vars

\* the first record has been written and flushed; the write of the second record
\* has failed with its row flushed, and the run has ended there
C16_Witness ==
    /\ pc = "aborted"
    /\ Len(started) = 2
    /\ Usable(result)
    /\ result.fund.fund_url = started[2]
    /\ successful_count = 1
    /\ Len(all_funds) = 1
    /\ csv_buf = << >>
    /\ csv_file = << Header, Columns(all_funds[1]), Columns(result.fund) >>
    /\ csv_file[2][2] = started[1]

\* C19: after the pagination loop get_fund_urls runs the fallback query iff the
\* primary set is empty; it returns the fallback result when that is run and
\* non-empty, and the primary set otherwise; a link whose resolved URL contains
\* "undefined" is in no result that get_fund_urls returns.
C19_FallbackAndUndefined ==
    (pc = "returned") =>
        /\ (source = "fallback") => (all_fund_urls = << >> /\ fund_urls # << >>)
        /\ (source = "primary") => fund_urls = all_fund_urls
        /\ \A i \in 1..Len(fund_urls) : IsResolved(fund_urls[i])

\* C20: after the i-th URL has been handled successful_count + failed_count = i,
\* each URL having added one to exactly one of the two counters; successful_count
\* is the number of data rows of the row file and the length of the batch list;
\* at the summary the counters sum to the number of discovered URLs.
C20_Counting ==
    /\ []((pc \in LoopPoints) =>
            /\ successful_count + failed_count = idx
            /\ successful_count = Len(csv_file) - 1
            /\ successful_count = Len(all_funds)
            /\ (pc \in {"finalize", "done"}) =>
                  successful_count + failed_count = Len(fund_urls))
    /\ [][(pc = "handle" /\ pc' = "loop") =>
            /\ idx' = idx + 1
            /\ \/ successful_count' = successful_count + 1 /\ failed_count' = failed_count
               \/ successful_count' = successful_count /\ failed_count' = failed_count + 1]_vars

C20_Witness ==
    /\ pc = "done"
    /\ Len(fund_urls) = 2
    /\ successful_count = 1
    /\ failed_count = 1
    /\ Len(csv_file) = 2
====
